---- MODULE Spec2Model ----
(***************************************************************************)
(* Book-catalog service: main.py (the running FastAPI application: login,  *)
(* bearer check, create / list / delete over the SQLite table "books",     *)
(* per-request sessions, process start) and auth.py (the signed, expiring  *)
(* token helpers).                                                         *)
(***************************************************************************)
EXTENDS Integers, Sequences, FiniteSets, TLC

\* ------------------------------------------------------------------ bounds
NumRequests == 2      \* request slots that can be in flight together
MaxId == 3            \* create_book is not taken once the next rowid exceeds this
TicksPerSecond == 2   \* clock resolution: ticks in a second
MaxFine == 3          \* the clock visits the first MaxFine ticks after each span start
MaxSpans == 1         \* the clock visits MaxSpans default lifetimes after time 0

\* --------------------------------------------------------------- variables
VARIABLES
    phase,      \* "stopped" | "serving": is the server process running
    dbExists,   \* books.db exists on disk (with the books table)
    store,      \* rows of table books in books.db
    req,        \* per slot: the in-flight request and its position
    last,       \* the most recent response sent, with the request it answers
    sessions,   \* SQLAlchemy sessions that are open (ids of live Session objects)
    created,    \* history: ids returned by create_book in this process run
    deleted,    \* history: created ids that a delete_book has removed (204)
    gone,       \* history: deleted ids that no later create_book was assigned
    live,       \* history: rows returned by create_book, their id not deleted since
    kept,       \* history: as live, but carried over from one process run to the next
    hadRows,    \* history: books.db held rows when the process last started
    clock,      \* utcnow(), in ticks
    issued,     \* the last login / create_access_token call and what it returned
    verdict     \* the last get_current_user / verify_token call and its outcome

service == <<phase, dbExists, store, req, last, sessions, created, deleted, gone,
             live, kept, hadRows>>
tokens == <<clock, issued, verdict>>
vars == <<service, tokens>>

Slots == 1..NumRequests

\* ------------------------------------------------------------ pure helpers
Max(S) == CHOOSE m \in S : \A x \in S : x <= m
Min(S) == CHOOSE m \in S : \A x \in S : m <= x

Ids(rows) == {row.id : row \in rows}

\* passlib bcrypt: a hash carries its salt; verify re-hashes the plain password
\* with that salt and compares digests.
Digest(salt, password) == <<"bcrypt", salt, password>>
pwd_hash(password) == [salt |-> "s1", digest |-> Digest("s1", password)]
pwd_verify(plain, hashed) == Digest(hashed.salt, plain) = hashed.digest

verify_password(plain_password, hashed_password) ==
    pwd_verify(plain_password, hashed_password)

\* A bearer value is the sequence of its dot-separated segments: the plain
\* string "admin" is <<"admin">>, a compact JWT has three segments.
Str(s) == <<s>>
NoHeader == <<>>      \* no Authorization header on the request

fake_users_db ==
    [u \in {"admin"} |->
        [username |-> "admin",
         full_name |-> "Rohit Narendra Chaudhari",
         email |-> "rohit@example.com",
         hashed_password |-> pwd_hash("password"),
         disabled |-> FALSE]]

NoUser == [username |-> ""]

\* dict.get on a string key: a value that is not a one-segment string, or
\* names no key, gives None.
get_user(username) ==
    IF Len(username) = 1 /\ username[1] \in DOMAIN fake_users_db
    THEN fake_users_db[username[1]]
    ELSE NoUser

\* faulty variant: the password is not checked
authenticate_user_nopw(username, password) == get_user(Str(username))

authenticate_user(username, password) ==
    LET user == get_user(Str(username)) IN
    IF user = NoUser THEN NoUser
    ELSE IF ~verify_password(password, user.hashed_password) THEN NoUser
    ELSE user

\* faulty variant: the token is the user's full name
login_fullname(username, password) ==
    LET user == authenticate_user(username, password) IN
    IF user = NoUser
    THEN [status |-> 400, detail |-> "Incorrect username or password",
          access_token |-> NoHeader, token_type |-> ""]
    ELSE [status |-> 200, detail |-> "",
          access_token |-> Str(user.full_name), token_type |-> "bearer"]

\* login: [status, body]; the body of a 200 carries access_token, token_type.
login(username, password) ==
    LET user == authenticate_user(username, password) IN
    IF user = NoUser
    THEN [status |-> 400, detail |-> "Incorrect username or password",
          access_token |-> NoHeader, token_type |-> ""]
    ELSE [status |-> 200, detail |-> "",
          access_token |-> Str(user.username), token_type |-> "bearer"]

\* faulty variant: the 401 of get_current_user is dropped, the handler goes on with None
get_current_user_noraise(authorization) ==
    [status |-> 200, detail |-> "", user |-> get_user(authorization)]

\* oauth2_scheme (OAuth2PasswordBearer, auto_error) then get_current_user.
get_current_user(authorization) ==
    IF authorization = NoHeader
    THEN [status |-> 401, detail |-> "Not authenticated", user |-> NoUser]
    ELSE LET user == get_user(authorization) IN
         IF user = NoUser
         THEN [status |-> 401, detail |-> "Invalid authentication credentials",
               user |-> NoUser]
         ELSE [status |-> 200, detail |-> "", user |-> user]

\* ------------------------------------------------------- auth.py: tokens
SECRET_KEY == "your-secret-key"
ALGORITHM == "HS256"
ACCESS_TOKEN_EXPIRE_MINUTES == 30

\* timedelta(minutes=m), in ticks
Minutes(m) == m * 60 * TicksPerSecond

\* timegm(dt.utctimetuple()): whole seconds, the fraction dropped
Timegm(ticks) == ticks \div TicksPerSecond

\* An expires_delta argument: <<>> is None, <<d>> a timedelta of d ticks.
NoDelta == <<>>
Delta(d) == <<d>>

\* Python truth of "expires_delta or ...": None and timedelta(0) are false.
Truthy(expires_delta) == expires_delta # NoDelta /\ expires_delta[1] # 0

NoSub == "<absent>"    \* the claims carry no "sub" key

\* HMAC over header and payload: only the same key, algorithm and claims
\* give the same signature.
Sign(key, algorithm, claims) == <<"hmac", key, algorithm, claims>>

\* jose.jwt.encode: a datetime exp becomes whole seconds; three segments.
jwt_encode(claims, key, algorithm) ==
    LET payload == [sub |-> claims.sub, exp |-> Timegm(claims.exp)] IN
    << [alg |-> algorithm, typ |-> "JWT"], payload, Sign(key, algorithm, payload) >>

\* jose.jwt.decode: JWTError (ok = FALSE) unless the token has three segments,
\* its algorithm is allowed, its signature verifies under key and its exp is
\* not before the current whole second.
jwt_decode(token, key, algorithms, now) ==
    IF Len(token) # 3 THEN [ok |-> FALSE, sub |-> NoSub]
    ELSE IF token[1].alg \notin algorithms THEN [ok |-> FALSE, sub |-> NoSub]
    ELSE IF token[3] # Sign(key, token[1].alg, token[2])
         THEN [ok |-> FALSE, sub |-> NoSub]
    ELSE IF token[2].exp < Timegm(now) THEN [ok |-> FALSE, sub |-> NoSub]
    ELSE [ok |-> TRUE, sub |-> token[2].sub]

create_access_token(sub, expires_delta, now) ==
    LET expire == now + (IF Truthy(expires_delta) THEN expires_delta[1]
                         ELSE Minutes(ACCESS_TOKEN_EXPIRE_MINUTES)) IN
    jwt_encode([sub |-> sub, exp |-> expire], SECRET_KEY, ALGORITHM)

verify_token(authorization, now) ==
    LET credentials_exception ==
            [status |-> 401, detail |-> "Could not validate credentials",
             user |-> NoUser]
        payload == jwt_decode(authorization, SECRET_KEY, {ALGORITHM}, now)
        user == get_user(Str(payload.sub)) IN
    IF authorization = NoHeader
    THEN [status |-> 401, detail |-> "Not authenticated", user |-> NoUser]
    ELSE IF ~payload.ok THEN credentials_exception
    ELSE IF payload.sub = NoSub THEN credentials_exception
    ELSE IF user = NoUser THEN credentials_exception
    ELSE [status |-> 200, detail |-> "", user |-> user]

\* ------------------------------------------------------------- book store
BookCreate(title, description, pages, author, publisher, year) ==
    [title |-> title, description |-> description, pages |-> pages,
     author |-> author, publisher |-> publisher, year |-> year]

\* BookDB(**book.dict()) once the INSERT has given it its id
BookDB(id, book) ==
    [id |-> id, title |-> book.title, description |-> book.description,
     pages |-> book.pages, author |-> book.author,
     publisher |-> book.publisher, year |-> book.year]

\* response_model=Book: the row's attributes, id included
Book(row) ==
    [id |-> row.id, title |-> row.title, description |-> row.description,
     pages |-> row.pages, author |-> row.author,
     publisher |-> row.publisher, year |-> row.year]

\* Request bodies the clients send.
Payloads ==
    { BookCreate("X", "d", 10, "a", "p", 2020),
      BookCreate("", "", 0, "", "", 0) }
NoPayload == BookCreate("-", "-", 0, "-", "-", 0)

dummy_books ==
    << BookCreate("Learn FastAPI", "A complete guide to FastAPI", 300,
                  "admin", "Omega Press", 2025),
       BookCreate("Python Basics", "Introduction to Python", 250,
                  "admin", "Omega Press", 2024),
       BookCreate("Advanced SQLAlchemy", "Deep dive into SQLAlchemy ORM", 400,
                  "admin", "Omega Press", 2023) >>

\* faulty variant: ids handed out by counting rows
NextRowidByCount(rows) == Cardinality(rows) + 1

\* id = Column(Integer, primary_key=True) on SQLite is the rowid (no
\* AUTOINCREMENT): an INSERT without id gets the largest rowid in the table
\* plus one, 1 in an empty table.
NextRowid(rows) == IF rows = {} THEN 1 ELSE Max(Ids(rows)) + 1

RECURSIVE add_all(_, _)
add_all(rows, books) ==
    IF books = <<>> THEN rows
    ELSE add_all(rows \cup {BookDB(NextRowid(rows), Head(books))}, Tail(books))

\* faulty variant: the old books.db is kept across process starts
ImportModuleKeep(exists, rows) == [exists |-> TRUE, rows |-> rows]

\* Module import: os.remove(DB_FILE) when it exists, then create_all.
ImportModule(exists, rows) == [exists |-> TRUE, rows |-> {}]

startup_event(rows) ==
    IF rows = {} THEN add_all(rows, dummy_books) ELSE rows

\* faulty variant: the new row is added to the session but never committed
create_book_nocommit(rows, book) ==
    [rows |-> rows, status |-> 200,
     body |-> Book(BookDB(NextRowid(rows), book))]

create_book(rows, book) ==
    LET db_book == BookDB(NextRowid(rows), book) IN
    [rows |-> rows \cup {db_book}, status |-> 200, body |-> Book(db_book)]

read_books(rows) ==
    [rows |-> rows, status |-> 200, body |-> {Book(row) : row \in rows}]

\* faulty variant: the 404 check is dropped
delete_book_no404(rows, book_id) ==
    [rows |-> {row \in rows : row.id # book_id}, status |-> 204, body |-> "null"]

\* faulty variant: the row is deleted in the session but never committed
delete_book_nocommit(rows, book_id) ==
    LET found == {row \in rows : row.id = book_id} IN
    IF found = {}
    THEN [rows |-> rows, status |-> 404, body |-> "Book not found"]
    ELSE [rows |-> rows, status |-> 204, body |-> "null"]

delete_book(rows, book_id) ==
    LET found == {row \in rows : row.id = book_id} IN
    IF found = {}
    THEN [rows |-> rows, status |-> 404, body |-> "Book not found"]
    ELSE [rows |-> rows \ found, status |-> 204, body |-> "null"]

\* ---------------------------------------------------------------- sessions
\* faulty variant: one module-level session handed to every request
SessionLocalShared(open) == 1

\* SessionLocal(): a new Session object, distinct from every live one.
SessionLocal(open) == Min({i \in 1..(Cardinality(open) + 1) : i \notin open})

\* ---------------------------------------------------------------- requests
Idle == [pc |-> "idle", op |-> "none", authorization |-> NoHeader, db |-> 0]

NoLast == [op |-> "none", authorization |-> NoHeader, book |-> NoPayload,
           book_id |-> 0, status |-> 0, body |-> "null"]

NoIssued == [by |-> "none", username |-> "", password |-> "", status |-> 0,
             token |-> NoHeader, at |-> 0, lifetime |-> 0]
NoVerdict == [by |-> "none", token |-> NoHeader, at |-> 0, status |-> 0,
              username |-> ""]

Ops == {"create_book", "read_books", "delete_book"}
Headers == {NoHeader, Str("admin"), Str("guest")}
BookIds == 1..(MaxId + 1)

Init ==
    /\ phase = "stopped"
    /\ dbExists = FALSE
    /\ store = {}
    /\ req = [r \in Slots |-> Idle]
    /\ last = NoLast
    /\ sessions = {}
    /\ created = {}
    /\ deleted = {}
    /\ gone = {}
    /\ live = {}
    /\ kept = {}
    /\ hadRows = FALSE
    /\ clock = 0
    /\ issued = NoIssued
    /\ verdict = NoVerdict

history == <<created, deleted, gone, live, kept>>

\* Process start: the module is imported (old file removed, table created),
\* then the startup event runs in a session of its own, closed before serving.
ProcessStart ==
    /\ phase = "stopped"
    /\ LET file == ImportModule(dbExists, store) IN
        /\ dbExists' = file.exists
        /\ store' = startup_event(file.rows)
    /\ phase' = "serving"
    /\ hadRows' = (store # {})
    /\ created' = {} /\ deleted' = {} /\ gone' = {} /\ live' = {}
    /\ last' = NoLast
    /\ UNCHANGED <<req, sessions, kept, tokens>>

\* The process ends: requests in flight and their sessions vanish with it,
\* books.db stays on disk.
ProcessStop ==
    /\ phase = "serving"
    /\ phase' = "stopped"
    /\ req' = [r \in Slots |-> Idle]
    /\ sessions' = {}
    /\ created' = {} /\ deleted' = {} /\ gone' = {} /\ live' = {}
    /\ last' = NoLast
    /\ UNCHANGED <<dbExists, store, kept, hadRows, tokens>>

\* A request for one of the three book routes arrives and its dependencies
\* are resolved in the order of the handler's signature: get_current_user
\* first, whose 401 is the response (get_db is then never entered), then get_db
\* up to its yield, which opens the request's session.
ResolveDependencies(r, op, authorization) ==
    /\ phase = "serving"
    /\ req[r].pc = "idle"
    /\ LET cu == get_current_user(authorization)
           db == SessionLocal(sessions) IN
        IF cu.status = 401
        THEN /\ last' = [NoLast EXCEPT !.op = op, !.authorization = authorization,
                                       !.status = 401, !.body = cu.detail]
             /\ UNCHANGED <<req, sessions>>
        ELSE /\ req' = [req EXCEPT ![r] = [pc |-> "handler", op |-> op,
                                              authorization |-> authorization,
                                              db |-> db]]
             /\ sessions' = sessions \cup {db}
             /\ UNCHANGED last
    /\ UNCHANGED <<phase, dbExists, store, history, hadRows, tokens>>

\* The handler bodies are async functions without an await: each runs to its
\* return (or raise) in one step. What is left of the request afterwards is
\* the exit of get_db.
Returned(r) == [req EXCEPT ![r] = [@ EXCEPT !.pc = "teardown", !.op = "none"]]

CreateBook(r, book) ==
    /\ req[r].pc = "handler" /\ req[r].op = "create_book"
    /\ NextRowid(store) <= MaxId
    /\ LET out == create_book(store, book) IN
        /\ store' = out.rows
        /\ last' = [NoLast EXCEPT !.op = "create_book",
                       !.authorization = req[r].authorization, !.book = book,
                       !.status = out.status, !.body = out.body]
        /\ created' = created \cup {out.body.id}
        /\ gone' = gone \ {out.body.id}
        /\ live' = live \cup {out.body}
        /\ kept' = kept \cup {out.body}
    /\ req' = Returned(r)
    /\ UNCHANGED <<phase, dbExists, sessions, deleted, hadRows, tokens>>

ReadBooks(r) ==
    /\ req[r].pc = "handler" /\ req[r].op = "read_books"
    /\ LET out == read_books(store) IN
        /\ store' = out.rows
        /\ last' = [NoLast EXCEPT !.op = "read_books",
                       !.authorization = req[r].authorization,
                       !.status = out.status, !.body = out.body]
    /\ req' = Returned(r)
    /\ UNCHANGED <<phase, dbExists, sessions, history, hadRows, tokens>>

DeleteBook(r, book_id) ==
    /\ req[r].pc = "handler" /\ req[r].op = "delete_book"
    /\ LET out == delete_book(store, book_id)
           ok == out.status = 204 IN
        /\ store' = out.rows
        /\ last' = [NoLast EXCEPT !.op = "delete_book",
                       !.authorization = req[r].authorization,
                       !.book_id = book_id,
                       !.status = out.status, !.body = out.body]
        /\ deleted' = IF ok /\ book_id \in created
                      THEN deleted \cup {book_id} ELSE deleted
        /\ gone' = IF ok /\ book_id \in created
                   THEN gone \cup {book_id} ELSE gone
        /\ live' = IF ok THEN {b \in live : b.id # book_id} ELSE live
        /\ kept' = IF ok THEN {b \in kept : b.id # book_id} ELSE kept
    /\ req' = Returned(r)
    /\ UNCHANGED <<phase, dbExists, sessions, created, hadRows, tokens>>

\* get_db after its yield: finally db.close(), whatever the handler did
CloseSession(r) ==
    /\ req[r].pc = "teardown"
    /\ sessions' = sessions \ {req[r].db}
    /\ req' = [req EXCEPT ![r] = Idle]
    /\ UNCHANGED <<phase, dbExists, store, last, history, hadRows, tokens>>

\* No other request is in flight.
Alone(r) == \A q \in Slots \ {r} : req[q].pc = "idle"

\* A request is taken up once the one before it has completed.
ResolveDependenciesInTurn(r, op, authorization) ==
    /\ Alone(r)
    /\ ResolveDependencies(r, op, authorization)

\* The service with requests taken one after the other, all inputs. The
\* handler bodies never interleave (none awaits), and what else a request does,
\* opening and closing its session, touches sessions alone: every order in
\* which handler bodies can run is an order of whole requests.
Next ==
    \/ ProcessStart
    \/ ProcessStop
    \/ \E r \in Slots, op \in Ops, h \in Headers :
          ResolveDependenciesInTurn(r, op, h)
    \/ \E r \in Slots, b \in Payloads : CreateBook(r, b)
    \/ \E r \in Slots : ReadBooks(r)
    \/ \E r \in Slots, i \in BookIds : DeleteBook(r, i)
    \/ \E r \in Slots : CloseSession(r)

Spec == Init /\ [][Next]_vars

\* The service with requests in flight together, one create_book body, and
\* delete_book on the last id and on an id no row ever has.
OnePayload == {BookCreate("X", "d", 10, "a", "p", 2020)}
FewIds == {MaxId, MaxId + 1}

NextConcurrent ==
    \/ ProcessStart
    \/ ProcessStop
    \/ \E r \in Slots, op \in Ops, h \in Headers : ResolveDependencies(r, op, h)
    \/ \E r \in Slots, b \in OnePayload : CreateBook(r, b)
    \/ \E r \in Slots : ReadBooks(r)
    \/ \E r \in Slots, i \in FewIds : DeleteBook(r, i)
    \/ \E r \in Slots : CloseSession(r)

SpecConcurrent == Init /\ [][NextConcurrent]_vars

\* ------------------------------------------------- issuing and verifying
Usernames == {"admin", "guest"}
Passwords == {"password", "letmein"}
Subs == {"admin", "guest", NoSub}
Deltas == {NoDelta, Delta(0), Delta(TicksPerSecond), Delta(0 - TicksPerSecond)}

\* The instants the clock visits: the first ticks of time, and the first
\* ticks after each whole default lifetime.
Instants ==
    {f + k * Minutes(ACCESS_TOKEN_EXPIRE_MINUTES) :
        f \in 0..MaxFine, k \in 0..MaxSpans}

\* Bearer values a client can present once issued holds a token: the token
\* itself, the token with a claim altered under the old signature, the same
\* claims signed with a guessed key, a bare username, and no header at all.
Presented ==
    {"issued", "sub altered", "exp altered", "guessed key", "admin", "guest",
     "none"}

Bearer(what) ==
    LET token == issued.token
        jwt == Len(token) = 3 IN
    CASE what = "issued" -> token
      [] what = "sub altered" /\ jwt ->
            <<token[1], [token[2] EXCEPT !.sub = "admin"], token[3]>>
      [] what = "exp altered" /\ jwt ->
            <<token[1], [token[2] EXCEPT !.exp = @ + Minutes(1)], token[3]>>
      [] what = "guessed key" /\ jwt ->
            <<token[1], token[2], Sign("guess", token[1].alg, token[2])>>
      [] what = "admin" -> Str("admin")
      [] what = "guest" -> Str("guest")
      [] OTHER -> NoHeader

Advance(t) ==
    /\ t > clock
    /\ clock' = t
    /\ UNCHANGED <<service, issued, verdict>>

\* POST /token
Login(username, password) ==
    /\ LET out == login(username, password) IN
        issued' = [NoIssued EXCEPT !.by = "login", !.username = username,
                      !.password = password, !.status = out.status,
                      !.token = out.access_token]
    /\ verdict' = NoVerdict
    /\ UNCHANGED <<service, clock>>

CreateAccessToken(sub, expires_delta) ==
    /\ issued' = [NoIssued EXCEPT !.by = "create_access_token",
                     !.username = sub, !.status = 200,
                     !.token = create_access_token(sub, expires_delta, clock),
                     !.at = clock,
                     !.lifetime = IF expires_delta = NoDelta
                                  THEN Minutes(ACCESS_TOKEN_EXPIRE_MINUTES)
                                  ELSE expires_delta[1]]
    /\ verdict' = NoVerdict
    /\ UNCHANGED <<service, clock>>

GetCurrentUser(what) ==
    /\ LET token == Bearer(what)
           out == get_current_user(token) IN
        verdict' = [by |-> "get_current_user", token |-> token, at |-> clock,
                    status |-> out.status, username |-> out.user.username]
    /\ UNCHANGED <<service, clock, issued>>

VerifyToken(what) ==
    /\ LET token == Bearer(what)
           out == verify_token(token, clock) IN
        verdict' = [by |-> "verify_token", token |-> token, at |-> clock,
                    status |-> out.status, username |-> out.user.username]
    /\ UNCHANGED <<service, clock, issued>>

NextAuth ==
    \/ \E t \in Instants : Advance(t)
    \/ \E u \in Usernames, p \in Passwords : Login(u, p)
    \/ \E sub \in Subs, d \in Deltas : CreateAccessToken(sub, d)
    \/ \E what \in Presented : GetCurrentUser(what)
    \/ \E what \in Presented : VerifyToken(what)

SpecAuth == Init /\ [][NextAuth]_vars

\* ================================================================ claims
\* A handler of route op returns (or raises) in this step, in slot r.
Returns(r, op) ==
    /\ req[r].pc = "handler" /\ req[r].op = op
    /\ req'[r].pc = "teardown"

\* The bearer value is missing or names no user of the credential store.
Unknown(authorization) ==
    authorization \notin {Str(u) : u \in DOMAIN fake_users_db}

\* The three sample books under the ids 1, 2, 3.
SampleRows == {BookDB(i, dummy_books[i]) : i \in 1..3}

\* The payload part of a returned Book.
Fields(b) == BookCreate(b.title, b.description, b.pages, b.author,
                        b.publisher, b.year)

\* C1: a request to create_book, read_books or delete_book whose bearer token
\* is missing or names no user is answered 401, never gets as far as a session
\* or a handler, and leaves the stored rows as they were.
C1_UnauthenticatedRejected ==
    /\ []((last.op \in Ops /\ Unknown(last.authorization)) => last.status = 401)
    /\ [](\A r \in Slots : req[r].pc # "idle" => ~Unknown(req[r].authorization))
    /\ [][(last' # last /\ Unknown(last'.authorization)) => store' = store]_vars

C1_Witness ==
    /\ last.op = "create_book" /\ last.authorization = NoHeader
    /\ last.status = 401
    /\ store = SampleRows

\* C2: the token a successful login returns is accepted by get_current_user,
\* which returns the user that logged in; every pair matching the credential
\* store logs in; and a token create_access_token makes for a known username
\* is accepted by verify_token up to its expiry, which returns that user.
Matches(username, password) == username = "admin" /\ password = "password"

C2_IssueThenVerify ==
    /\ (issued.by = "login" /\ Matches(issued.username, issued.password))
          => (issued.status = 200 /\ issued.token # NoHeader)
    /\ (/\ issued.by = "login" /\ issued.status = 200
        /\ verdict.by = "get_current_user" /\ verdict.token = issued.token)
          => (verdict.status = 200 /\ verdict.username = issued.username)
    /\ (/\ issued.by = "create_access_token"
        /\ issued.username \in DOMAIN fake_users_db
        /\ verdict.by = "verify_token" /\ verdict.token = issued.token
        /\ verdict.at <= issued.at + issued.lifetime)
          => (verdict.status = 200 /\ verdict.username = issued.username)

C2_Witness ==
    /\ issued.by = "login" /\ issued.status = 200
    /\ Matches(issued.username, issued.password)
    /\ verdict.by = "get_current_user" /\ verdict.token = issued.token
    /\ verdict.status = 200 /\ verdict.username = "admin"

\* C3: a login whose username is unknown or whose password is not the stored
\* one is answered 400 and carries no access token.
C3_InvalidCredentials ==
    (issued.by = "login" /\ ~Matches(issued.username, issued.password))
        => (issued.status = 400 /\ issued.token = NoHeader)

C3_Witness ==
    /\ issued.by = "login" /\ issued.username = "admin"
    /\ issued.password = "letmein"
    /\ issued.status = 400 /\ issued.token = NoHeader

\* C4: a token issued at time t with lifetime d (30 minutes when none is
\* given) is answered 401 by verify_token whenever it is verified later than
\* t + d, times taken in whole seconds as the exp claim carries them.
C4_RejectedAfterExpiry ==
    (/\ issued.by = "create_access_token"
     /\ verdict.by = "verify_token" /\ verdict.token = issued.token
     /\ Timegm(verdict.at) > Timegm(issued.at + issued.lifetime))
        => verdict.status = 401

\* C5: create_book answers with a Book whose six fields are those submitted
\* and whose id no row of the store had just before.
C5_CreateEchoesWithFreshId ==
    [][\A r \in Slots : Returns(r, "create_book") =>
          /\ last'.op = "create_book" /\ last'.status = 200
          /\ Fields(last'.body) = last'.book
          /\ last'.body.id \notin Ids(store)]_vars

C5_Witness ==
    /\ last.op = "create_book" /\ last.status = 200
    /\ Fields(last.body) = last.book
    /\ Cardinality(store) = 3 /\ last.body.id = 3

\* C6 as claimed: once delete_book has removed an id that create_book had
\* returned, every later read_books omits that id and every later delete_book
\* of it is answered 404.
C6_DeletedStaysGone ==
    [][/\ \A r \in Slots : Returns(r, "read_books") =>
              \A b \in last'.body : b.id \notin deleted
       /\ \A r \in Slots : Returns(r, "delete_book") =>
              (last'.book_id \in deleted => last'.status = 404)]_vars

\* C6 as amended: the same, within one run of the process and for as long as
\* no later create_book has been assigned that id again.
C6_DeletedGoneUntilReassigned ==
    [][/\ \A r \in Slots : Returns(r, "read_books") =>
              \A b \in last'.body : b.id \notin gone
       /\ \A r \in Slots : Returns(r, "delete_book") =>
              (last'.book_id \in gone => last'.status = 404)]_vars

C6_Witness ==
    /\ last.op = "delete_book" /\ last.status = 404
    /\ last.book_id \in gone
    /\ last.book_id \notin Ids(store)

\* C7: delete_book on an id no row has is answered 404 and changes no row; on
\* an id a row has it is answered 204 and removes that row and no other.
C7_DeleteExactlyOne ==
    [][\A r \in Slots : Returns(r, "delete_book") =>
          /\ last'.op = "delete_book"
          /\ IF last'.book_id \in Ids(store)
             THEN /\ last'.status = 204
                  /\ store' = {row \in store : row.id # last'.book_id}
                  /\ Cardinality(store') = Cardinality(store) - 1
             ELSE /\ last'.status = 404
                  /\ store' = store]_vars

C7_Witness ==
    /\ last.op = "delete_book" /\ last.status = 204
    /\ last.book_id \notin Ids(store)
    /\ Cardinality(store) = 2

\* C8 as claimed: read_books answers with every Book a create_book has ever
\* returned whose id has not been deleted since, under the id that create_book
\* returned.
C8_ListContainsEverCreated ==
    (last.op = "read_books" /\ last.status = 200) => kept \subseteq last.body

\* C8 as amended: read_books answers with every Book a create_book has
\* returned in this run of the process whose id has not been deleted since,
\* under the id that create_book returned.
C8_ListContainsCreated ==
    (last.op = "read_books" /\ last.status = 200) => live \subseteq last.body

C8_Witness ==
    /\ last.op = "read_books" /\ last.status = 200
    /\ \E b1 \in live, b2 \in live :
          /\ b1.id # b2.id /\ Fields(b1) # Fields(b2)
          /\ {b1, b2} \subseteq last.body

\* C9 as claimed: a process start ensures the table and inserts the three
\* sample books if and only if the store is empty at that moment; a store
\* that holds a row is left as it was.
C9_StartupKeepsRows ==
    [][(phase = "stopped" /\ phase' = "serving") =>
          /\ dbExists'
          /\ IF store = {} THEN store' = SampleRows ELSE store' = store]_vars

\* C9 as amended: a process start removes the old data file and creates the
\* table anew, so the startup event always finds the store empty and inserts
\* the three sample books: after a start the store holds exactly these, with
\* ids 1, 2, 3, whatever it held before.
C9_StartupResetsToSamples ==
    [][(phase = "stopped" /\ phase' = "serving") =>
          (dbExists' /\ store' = SampleRows)]_vars

C9_Witness ==
    /\ phase = "serving" /\ hadRows
    /\ last = NoLast
    /\ store = SampleRows /\ Ids(store) = {1, 2, 3}

\* C10: a request holds an open session of its own from get_db until its
\* handler has returned or raised, no two requests in flight hold the same
\* session, and the open sessions are exactly those of the requests in
\* flight: when none is in flight, none is open.
InFlight == {r \in Slots : req[r].pc \in {"handler", "teardown"}}

C10_SessionPerRequest ==
    /\ \A r \in InFlight : req[r].db \in sessions
    /\ \A r1 \in InFlight, r2 \in InFlight : r1 # r2 => req[r1].db # req[r2].db
    /\ sessions = {req[r].db : r \in InFlight}
    /\ (\A r \in Slots : req[r].pc = "idle") => sessions = {}

C10_Witness ==
    /\ last.op = "delete_book" /\ last.status = 404
    /\ \E r \in Slots :
          /\ req[r].pc = "handler" /\ req[r].db = 2
          /\ sessions = {2}
          /\ \A q \in Slots \ {r} : req[q].pc = "idle"

====
